---- MODULE Spec2Model ----
(***************************************************************************)
(* Command Advisor (src/advisor.cpp): the directory analysis engine.       *)
(*                                                                         *)
(* analyze_folder walks a directory tree with a                            *)
(* std::filesystem::recursive_directory_iterator opened with               *)
(* skip_permission_denied and folds every entry into an AnalysisResult.    *)
(* The model fixes a finite directory tree in Init, runs the loop of       *)
(* analyze_folder on it one statement group at a time, and lets the        *)
(* environment make up to MaxFaults single filesystem calls fail (an entry *)
(* removed or unreadable between two calls).                               *)
(*                                                                         *)
(* Scaling: uintmax_t is 64 bits wide and st_size is a signed 64-bit       *)
(* off_t.  The model keeps the ratio and scales the width down to SizeBits *)
(* bits: sizes are added modulo 2^SizeBits, and a file is at most          *)
(* MaxFileSize = 2^(SizeBits-1) - 1 bytes long.                            *)
(***************************************************************************)
EXTENDS Integers, Sequences, FiniteSets, TLC

\* ---------------------------------------------------------------- bounds
\* Entries below the root.
MaxNodes == 3
\* Width of uintmax_t in the model.
SizeBits == 3
\* Filesystem calls the environment may make fail during one scan.
MaxFaults == 1

\* Largest st_size of a file: the largest value of a signed off_t.
MaxFileSize == 2 ^ (SizeBits - 1) - 1

\* The file sizes of the trees: empty, one byte, largest.
FileSizes == {0, 1, MaxFileSize}

\* ------------------------------------------------------- names and paths
\* A file name is a sequence of characters; an entry's own character makes
\* sibling names distinct.
IdChars == <<"a", "b", "c", "d", "e", "f", "g", "h">>

IdChar(i) == IdChars[i]

\* The path given to analyze_folder.
RootPath == << <<"r">> >>

NoExtension == <<"[no extension]">>

LastDot(name) ==
    LET dots == { k \in 1..Len(name) : name[k] = "." }
    IN  IF dots = {} THEN 0 ELSE CHOOSE k \in dots : \A j \in dots : j <= k

\* The extension taken from the first period after the first character.
PathExtensionFromFirstDot(name) ==
    LET dots == { k \in 2..Len(name) : name[k] = "." }
    IN  IF name = <<".">> \/ name = <<".", ".">> \/ dots = {} THEN <<>>
        ELSE SubSeq(name, CHOOSE k \in dots : \A j \in dots : k <= j, Len(name))

\* fs::path::extension(): the suffix from the last period on; empty for a
\* name without period, for "." and "..", and for a name whose only period
\* is its first character.
PathExtension(name) ==
    IF name = <<".">> \/ name = <<".", ".">> THEN <<>>
    ELSE IF LastDot(name) <= 1 THEN <<>>
    ELSE SubSeq(name, LastDot(name), Len(name))

get_extension(name) ==
    IF PathExtension(name) = <<>> THEN NoExtension ELSE PathExtension(name)

\* ------------------------------------------------------------- the tree
\* What an entry is.  perm is the permission to list a directory; target is
\* what a symbolic link points to: the root (an ancestor), the entry listed
\* just before it, itself (a loop), or a path that does not exist.
Attrs ==
         [kind : {"file"}, size : FileSizes, perm : {"ok"}, target : {"none"}]
    \cup [kind : {"dir"}, size : {0}, perm : {"ok", "denied"}, target : {"none"}]
    \cup [kind : {"symlink"}, size : {0}, perm : {"ok"},
          target : {"root", "previous", "self", "missing"}]
    \cup [kind : {"other"}, size : {0}, perm : {"ok"}, target : {"none"}]

\* Entries are numbered in the order a depth-first listing meets them: the
\* parent of entry i is the root (0) or an earlier entry.
ParentMaps ==
    [n \in 0..MaxNodes |-> { p \in [1..n -> 0..(MaxNodes - 1)] : \A i \in 1..n : p[i] < i }]

RECURSIVE AncestorsBy(_, _)
AncestorsBy(p, i) == IF i = 0 THEN {} ELSE {p[i]} \cup AncestorsBy(p, p[i])

\* The parent of an entry is a directory, and it lies on the path from the
\* root to the entry listed just before.
WellFormed(att, p) ==
    \A i \in DOMAIN att :
        /\ p[i] # 0 => att[p[i]].kind = "dir"
        /\ i > 1 => p[i] \in {i - 1} \cup AncestorsBy(p, i - 1)

MakeTree(att, p) ==
    [i \in DOMAIN att |->
        [kind |-> att[i].kind, size |-> att[i].size, perm |-> att[i].perm,
         target |-> att[i].target, parent |-> p[i]]]

Roots ==
         [kind : {"missing", "file"}, perm : {"ok"}]
    \cup [kind : {"dir"}, perm : {"ok", "denied"}]

VARIABLES
    root,      \* what the path given to analyze_folder names
    tree,      \* the entries below the root
    pc,        \* the statement analyze_folder is at
    cur,       \* the entry the iterator stands on (0: none)
    result,    \* AnalysisResult result
    err,       \* the exception analyze_folder threw
    faults,    \* filesystem calls that failed so far
    failed,    \* entries on which a call failed or whose listing was denied
    changed,   \* entries whose visit changed result
    sized,     \* entries counted as regular files whose size was read, in order
    listed,    \* the directories the iterator opened, in order (0: the root)
    argv,      \* the arguments of the process, argv[1] onwards
    out,       \* what the process printed so far
    status,    \* the exit status of the process (-1: still running)
    fmt,       \* a run of format_bytes
    extn,      \* a run of get_extension
    shown,     \* a run of the extension list of display_analysis
    legacy     \* a run of the analyze_folder of the first version

vars == <<root, tree, pc, cur, result, err, faults, failed, changed, sized, listed,
          argv, out, status, fmt, extn, shown, legacy>>

\* What a scan leaves alone.
Outside == <<argv, out, status, fmt, extn, shown, legacy>>

Idle == [pc |-> "idle"]

\* No process output, and no other run in progress.
OutsideIdle ==
    /\ argv = <<>>
    /\ out = <<>>
    /\ status = -1
    /\ fmt = Idle
    /\ extn = Idle
    /\ shown = Idle
    /\ legacy = Idle

N == Len(tree)

RECURSIVE Ancestors(_)
Ancestors(i) == IF i = 0 THEN {} ELSE {tree[i].parent} \cup Ancestors(tree[i].parent)

\* The name of entry i: the regular files at odd places carry an extension.
NameOf(i) ==
    IF tree[i].kind = "file" /\ i % 2 = 1
    THEN <<IdChar(i), ".", "t">>
    ELSE <<IdChar(i)>>

\* entry.path(): the root path followed by the names down to the entry.
RECURSIVE PathOf(_)
PathOf(i) == IF i = 0 THEN RootPath ELSE Append(PathOf(tree[i].parent), NameOf(i))

\* The entry a symbolic link names; N + 1 names nothing.
TargetOf(i) ==
    CASE tree[i].target = "root" -> 0
      [] tree[i].target = "previous" -> i - 1
      [] tree[i].target = "self" -> i
      [] OTHER -> N + 1

\* A chmod-000 directory can be neither listed nor searched.
Searchable(i) == \A a \in Ancestors(i) : a = 0 \/ tree[a].perm = "ok"

\* stat() of an entry of the tree, following symbolic links: the entry a
\* chain of links ends at, "not_found" for a dangling link, "error" for a
\* loop of links (ELOOP) or a target below an unsearchable directory
\* (EACCES).
RECURSIVE Follow(_, _)
Follow(i, fuel) ==
    IF i = 0 THEN [type |-> "dir", at |-> 0]
    ELSE IF i > N THEN [type |-> "not_found", at |-> 0]
    ELSE IF tree[i].kind # "symlink"
         THEN IF Searchable(i) THEN [type |-> tree[i].kind, at |-> i]
                               ELSE [type |-> "error", at |-> 0]
    ELSE IF fuel = 0 THEN [type |-> "error", at |-> 0]
    ELSE Follow(TargetOf(i), fuel - 1)

\* directory_entry::status(): the cached type of the listing, or stat() for
\* a symbolic link.
Status(i) ==
    IF tree[i].kind = "symlink"
    THEN Follow(TargetOf(i), N)
    ELSE [type |-> tree[i].kind, at |-> i]

\* directory_entry::file_size() of an entry whose status is a regular file.
FileSize(i) == tree[Status(i).at].size

\* ------------------------------------------------------- AnalysisResult
EmptyResult ==
    [total_files |-> 0, total_directories |-> 0, total_size |-> 0,
     largest_file_size |-> 0, largest_file_path |-> <<>>, file_types |-> <<>>]

UIntMaxRange == 2 ^ SizeBits

\* result.total_size += size, on uintmax_t.
AddSize(total, size) == (total + size) % UIntMaxRange

\* The comparison written >=: a later file of equal size takes the record.
TrackLargestLastWins(res, size, path) ==
    IF size >= res.largest_file_size
    THEN [res EXCEPT !.largest_file_size = size, !.largest_file_path = path]
    ELSE res

\* The comparison made against result.total_size, which already holds size.
TrackLargestAgainstTotal(res, size, path) ==
    IF size > res.total_size
    THEN [res EXCEPT !.largest_file_size = size, !.largest_file_path = path]
    ELSE res

\* if (size > result.largest_file_size) { ... }
TrackLargest(res, size, path) ==
    IF size > res.largest_file_size
    THEN [res EXCEPT !.largest_file_size = size, !.largest_file_path = path]
    ELSE res

\* result.file_types[ext]++ on a std::map: a missing key starts at 0.
CountType(types, ext) ==
    IF ext \in DOMAIN types
    THEN [types EXCEPT ![ext] = @ + 1]
    ELSE [e \in DOMAIN types \cup {ext} |-> IF e = ext THEN 1 ELSE types[e]]

\* The existence test dropped: every path passes it.
PathExistsAlways(r) == TRUE

\* fs::exists(path)
PathExists(r) == r.kind # "missing"

\* fs::is_directory(path)
PathIsDirectory(r) == r.kind = "dir"

\* --------------------------------------------------------- the iterator
\* The last entry of the subtree below entry i.
LastBelow(i) ==
    LET below == { j \in 1..N : i \in Ancestors(j) }
    IN  IF below = {} THEN i ELSE CHOOSE j \in below : \A k \in below : k <= j

\* The entry after entry i: its first child when the iterator went down into
\* i, else the entry after the subtree of i; 0 at the end of the listing.
NextEntry(i, descend) ==
    LET nxt == (IF descend THEN i ELSE LastBelow(i)) + 1
    IN  IF nxt > N THEN 0 ELSE nxt

\* -------------------------------------------------------------- actions
Init ==
    /\ root \in Roots
    /\ \E n \in 0..(IF root.kind = "dir" THEN MaxNodes ELSE 0) :
         \E att \in [1..n -> Attrs] :
            \E p \in ParentMaps[n] :
               /\ WellFormed(att, p)
               /\ tree = MakeTree(att, p)
    /\ pc = "exists"
    /\ cur = 0
    /\ result = EmptyResult
    /\ err = "none"
    /\ faults = 0
    /\ failed = {}
    /\ changed = {}
    /\ sized = <<>>
    /\ listed = <<>>
    /\ OutsideIdle

Ghosts == <<failed, changed, sized>>

\* if (!fs::exists(path)) throw
CheckExists ==
    /\ pc = "exists"
    /\ IF PathExists(root)
       THEN pc' = "is_directory" /\ err' = err
       ELSE pc' = "thrown" /\ err' = "NotFound"
    /\ UNCHANGED <<root, tree, cur, result, faults, Ghosts, listed, Outside>>

\* if (!fs::is_directory(path)) throw
CheckIsDirectory ==
    /\ pc = "is_directory"
    /\ IF PathIsDirectory(root)
       THEN pc' = "begin" /\ err' = err
       ELSE pc' = "thrown" /\ err' = "NotADirectory"
    /\ UNCHANGED <<root, tree, cur, result, faults, Ghosts, listed, Outside>>

\* The iterator reaches entry nxt, or the end of the listing.
MoveTo(nxt) ==
    /\ cur' = nxt
    /\ pc' = IF nxt = 0 THEN "returned" ELSE "body"

\* recursive_directory_iterator(path, skip_permission_denied): a root that
\* may not be listed gives the end iterator; any other failure to open it
\* is a filesystem_error, rethrown by the outer catch.
Begin ==
    /\ pc = "begin"
    /\ \/ /\ root.perm = "denied"
          /\ MoveTo(0)
          /\ UNCHANGED <<err, faults, listed>>
       \/ /\ root.perm = "ok"
          /\ MoveTo(NextEntry(0, TRUE))
          /\ listed' = Append(listed, 0)
          /\ UNCHANGED <<err, faults>>
       \/ /\ faults < MaxFaults
          /\ faults' = faults + 1
          /\ pc' = "thrown"
          /\ err' = "ScanAborted"
          /\ UNCHANGED <<cur, listed>>
    /\ UNCHANGED <<root, tree, result, Ghosts, Outside>>

\* if (entry.is_regular_file()) { result.total_files++; ...
\* } else if (entry.is_directory()) { result.total_directories++; }
\* A status that cannot be read throws into the inner catch; an entry that
\* no longer exists is neither a file nor a directory.
Classify ==
    /\ pc = "body"
    /\ \/ /\ Status(cur).type = "file"
          /\ result' = [result EXCEPT !.total_files = @ + 1]
          /\ pc' = "size"
          /\ UNCHANGED <<faults, failed>>
       \/ /\ Status(cur).type = "dir"
          /\ result' = [result EXCEPT !.total_directories = @ + 1]
          /\ pc' = "increment"
          /\ UNCHANGED <<faults, failed>>
       \/ /\ Status(cur).type \in {"other", "not_found"}
          /\ pc' = "increment"
          /\ UNCHANGED <<result, faults, failed>>
       \/ /\ Status(cur).type = "error"
          /\ pc' = "increment"
          /\ failed' = failed \cup {cur}
          /\ UNCHANGED <<result, faults>>
       \/ /\ faults < MaxFaults
          /\ faults' = faults + 1
          /\ pc' = "increment"
          /\ failed' = failed \cup {cur}
          /\ UNCHANGED result
    /\ changed' = IF result' # result THEN changed \cup {cur} ELSE changed
    /\ UNCHANGED <<root, tree, cur, err, sized, listed, Outside>>

\* The statements after the size is read:
\* result.total_size += size; the largest file; result.file_types[ext]++
Measured(res, size, path, name) ==
    LET summed == [res EXCEPT !.total_size = AddSize(@, size)]
        largest == TrackLargest(summed, size, path)
    IN  [largest EXCEPT !.file_types = CountType(@, get_extension(name))]

\* auto size = entry.file_size(); and the statements that use it.  A size
\* that cannot be read (the file was removed after its type was read) throws
\* into the inner catch.
Measure ==
    /\ pc = "size"
    /\ \/ /\ result' = Measured(result, FileSize(cur), PathOf(cur), NameOf(cur))
          /\ sized' = Append(sized, cur)
          /\ UNCHANGED <<faults, failed>>
       \/ /\ faults < MaxFaults
          /\ faults' = faults + 1
          /\ failed' = failed \cup {cur}
          /\ UNCHANGED <<result, sized>>
    /\ pc' = "increment"
    /\ changed' = IF result' # result THEN changed \cup {cur} ELSE changed
    /\ UNCHANGED <<root, tree, cur, err, listed, Outside>>

\* The iterator goes down into the entries that are symbolic links to
\* directories as well (follow_directory_symlink).
ShouldRecurseFollowingLinks(i) == Status(i).type = "dir"

\* The iterator goes down into an entry whose own type is directory; without
\* follow_directory_symlink a symbolic link to a directory is not one.
ShouldRecurse(i) == tree[i].kind = "dir"

\* ++it: a directory (not a symbolic link to one) is opened; permission
\* denied skips it, any other failure to open it is a filesystem_error that
\* leaves the loop by the outer catch.
Increment ==
    /\ pc = "increment"
    /\ \/ /\ ~ShouldRecurse(cur)
          /\ MoveTo(NextEntry(cur, FALSE))
          /\ UNCHANGED <<err, faults, failed, listed>>
       \/ /\ ShouldRecurse(cur)
          /\ tree[cur].perm = "ok"
          /\ MoveTo(NextEntry(cur, TRUE))
          /\ listed' = Append(listed, Status(cur).at)
          /\ UNCHANGED <<err, faults, failed>>
       \/ /\ ShouldRecurse(cur)
          /\ tree[cur].perm = "denied"
          /\ MoveTo(NextEntry(cur, FALSE))
          /\ failed' = failed \cup {cur}
          /\ UNCHANGED <<err, faults, listed>>
       \/ /\ ShouldRecurse(cur)
          /\ faults < MaxFaults
          /\ faults' = faults + 1
          /\ failed' = failed \cup {cur}
          /\ pc' = "thrown"
          /\ err' = "ScanAborted"
          /\ UNCHANGED <<cur, listed>>
    /\ UNCHANGED <<root, tree, result, changed, sized, Outside>>

Next ==
    \/ CheckExists
    \/ CheckIsDirectory
    \/ Begin
    \/ Classify
    \/ Measure
    \/ Increment

Spec == Init /\ [][Next]_vars

\* ------------------------------------------------ reference quantities
RECURSIVE SumOver(_, _)
SumOver(f, S) ==
    IF S = {} THEN 0
    ELSE LET x == CHOOSE y \in S : TRUE IN f[x] + SumOver(f, S \ {x})

\* The sum of the counts stored in a file_types map.
SumCounts(types) == SumOver(types, DOMAIN types)

RegularFiles == { i \in 1..N : tree[i].kind = "file" }

Directories == { i \in 1..N : tree[i].kind = "dir" }

DeniedDirectories == { i \in Directories : tree[i].perm = "denied" }

\* The exact sum of the sizes of the regular files of S.
SumOfSizes(S) == SumOver([i \in 1..N |-> tree[i].size], S)

\* The sizes read by the scan, in traversal order.
SizesRead == [k \in 1..Len(sized) |-> FileSize(sized[k])]

MaxSizeRead ==
    IF sized = <<>> THEN 0
    ELSE CHOOSE m \in { SizesRead[k] : k \in 1..Len(sized) } :
            \A k \in 1..Len(sized) : SizesRead[k] <= m

\* The first entry in traversal order whose size is the largest one read.
FirstOfMaxSize ==
    sized[CHOOSE k \in 1..Len(sized) :
            /\ SizesRead[k] = MaxSizeRead
            /\ \A j \in 1..(k - 1) : SizesRead[j] # MaxSizeRead]

\* --------------------------------------------------------------- claims

\* C1: in every returned result the counts of file_types add up to
\* total_files, whatever calls failed during the walk.
C1_SumProperty ==
    pc = "returned" => SumCounts(result.file_types) = result.total_files

\* C2: an entry that failed to be read (its type or size could not be read,
\* or its listing was denied) changed none of the counters of result.
C2_FailedEntryChangesNothing == failed \cap changed = {}

\* C3: once the iterator stands on an entry of the root, analyze_folder
\* never fails: a failure on an entry is skipped and a result is returned.
C3_EntryFailureNeverAborts == ~(pc = "thrown" /\ cur # 0)

\* C4: with subdirectories that may not be listed and no other failure,
\* analyze_folder does not throw and total_files is the number of regular
\* files outside the unreadable subdirectories.
C4_PermissionDeniedResilience ==
    (root.kind = "dir" /\ root.perm = "ok" /\ faults = 0 /\ DeniedDirectories # {})
        => /\ pc # "thrown"
           /\ pc = "returned" =>
                result.total_files = Cardinality({ i \in RegularFiles : Searchable(i) })

\* C5: a missing root fails with NotFound, a root that is not a directory
\* fails with the distinct NotADirectory, both before any entry is visited,
\* and a root that is a directory fails with neither.
C5_RootPreconditions ==
    /\ (root.kind = "missing" /\ pc # "exists") => (pc = "thrown" /\ err = "NotFound")
    /\ (root.kind = "file" /\ pc \notin {"exists", "is_directory"})
            => (pc = "thrown" /\ err = "NotADirectory")
    /\ err \in {"NotFound", "NotADirectory"}
            => (pc = "thrown" /\ cur = 0 /\ result = EmptyResult /\ changed = {})
    /\ root.kind = "dir" => err \notin {"NotFound", "NotADirectory"}

C5_Witness == pc = "thrown" /\ err = "NotADirectory" /\ root.kind = "file"

\* C6: when nothing fails, the returned result is the fold over the tree:
\* total_files the number of regular files, total_directories the number of
\* directories below the root, total_size the sum of the file sizes, and
\* the empty result for an empty directory.
C6_ReferenceFold ==
    (pc = "returned" /\ root.perm = "ok" /\ faults = 0 /\ failed = {}
        /\ DeniedDirectories = {})
        => /\ result.total_files = Cardinality(RegularFiles)
           /\ result.total_directories = Cardinality(Directories)
           /\ result.total_size = SumOfSizes(RegularFiles)
           /\ N = 0 => result = EmptyResult

\* C7 as stated: after a scan largest_file_size is the largest size read and
\* largest_file_path the path of the first file read with that size.
C7_FirstMaxAsStated ==
    pc = "returned" =>
        /\ result.largest_file_size = MaxSizeRead
        /\ sized # <<>> => result.largest_file_path = PathOf(FirstOfMaxSize)

\* C7: after a scan largest_file_size is the largest size read; when that
\* size is above 0, largest_file_path is the path of the first entry in
\* traversal order read with that size (a later entry of equal size does not
\* replace it), and when it is 0 largest_file_path is empty.
C7_FirstMaxWins ==
    pc = "returned" =>
        /\ result.largest_file_size = MaxSizeRead
        /\ MaxSizeRead > 0 => result.largest_file_path = PathOf(FirstOfMaxSize)
        /\ MaxSizeRead = 0 => result.largest_file_path = <<>>

C7_Witness ==
    /\ pc = "returned"
    /\ \E j, k \in 1..Len(sized) :
          /\ j < k
          /\ SizesRead[j] = MaxSizeRead
          /\ SizesRead[k] = MaxSizeRead
          /\ MaxSizeRead > 0
          /\ result.largest_file_path = PathOf(sized[j])

\* C8 as stated: in a returned result largest_file_size = 0 with an empty
\* largest_file_path holds exactly when no regular file was read.
C8_NoLargestAsStated ==
    pc = "returned" =>
        ((result.largest_file_size = 0 /\ result.largest_file_path = <<>>)
            <=> sized = <<>>)

\* C8: in a returned result largest_file_size = 0 with an empty
\* largest_file_path holds exactly when no regular file of more than 0
\* bytes was read.
C8_NoLargestIffNoNonEmptyFile ==
    pc = "returned" =>
        ((result.largest_file_size = 0 /\ result.largest_file_path = <<>>)
            <=> \A k \in 1..Len(sized) : SizesRead[k] = 0)

C8_Witness ==
    /\ pc = "returned"
    /\ sized # <<>>
    /\ \A k \in 1..Len(sized) : SizesRead[k] = 0
    /\ result.largest_file_size = 0
    /\ result.largest_file_path = <<>>

\* C9: in every state of a scan, total_files > 0 implies
\* largest_file_size <= total_size.
C9_MaxBound ==
    result.total_files > 0 => result.largest_file_size <= result.total_size

\* C10: the visit of a symbolic link, a device or a socket changes no
\* counter of result.
C10_OtherKindsNotCounted ==
    \A i \in changed : tree[i].kind \notin {"symlink", "other"}

\* =====================================================================
\* The other entry points of the program, each run on its own.
\* =====================================================================
ScanVars == <<root, tree, pc, cur, result, err, faults, failed, changed, sized, listed>>

\* No scan in progress.
ScanIdle ==
    /\ root = [kind |-> "missing", perm |-> "ok"]
    /\ tree = <<>>
    /\ pc = "idle"
    /\ cur = 0
    /\ result = EmptyResult
    /\ err = "none"
    /\ faults = 0
    /\ failed = {}
    /\ changed = {}
    /\ sized = <<>>
    /\ listed = <<>>

\* -------------------------------------------------------- get_extension
\* Longest file name given to get_extension.
MaxNameLen == 5

\* A lower-case letter, an upper-case letter and the period.
NameChars == {"a", "B", "."}

\* The names a directory entry can have: "." and ".." are never listed.
FileNames ==
    UNION { [1..n -> NameChars] : n \in 1..MaxNameLen } \ {<<".">>, <<".", ".">>}

InitExt ==
    /\ ScanIdle
    /\ argv = <<>> /\ out = <<>> /\ status = -1
    /\ fmt = Idle /\ shown = Idle /\ legacy = Idle
    /\ \E name \in FileNames : extn = [pc |-> "call", name |-> name]

\* std::string get_extension(const fs::path& path)
GetExtension ==
    /\ extn.pc = "call"
    /\ extn' = [pc |-> "done", name |-> extn.name, label |-> get_extension(extn.name)]
    /\ UNCHANGED <<ScanVars, argv, out, status, fmt, shown, legacy>>

NextExt == GetExtension

SpecExt == InitExt /\ [][NextExt]_vars

\* The suffix of name that starts at its last period, <<>> without period.
SuffixFromLastPeriod(name) ==
    IF \A k \in 1..Len(name) : name[k] # "." THEN <<>>
    ELSE LET k == CHOOSE i \in 1..Len(name) :
                     name[i] = "." /\ \A j \in (i + 1)..Len(name) : name[j] # "."
         IN  SubSeq(name, k, Len(name))

HasPeriod(name) == \E k \in 1..Len(name) : name[k] = "."

HasPeriodAfterFirst(name) == \E k \in 2..Len(name) : name[k] = "."

\* C11 as stated: the label is the suffix of the name from its last period
\* on, and it is "[no extension]" exactly when the name holds no period.
\* Violated: the name ".a" holds a period and is labelled "[no extension]".
C11_LabelAsStated ==
    extn.pc = "done" =>
        /\ (extn.label = NoExtension) <=> ~HasPeriod(extn.name)
        /\ HasPeriod(extn.name) => extn.label = SuffixFromLastPeriod(extn.name)

\* C11 amended: the label is "[no extension]" exactly when the name holds no
\* period after its first character; otherwise it is the suffix of the name
\* from its last period on, case preserved.  A name with two periods is
\* labelled by the last one, a name without period by the sentinel.
C11_LabelOfName ==
    extn.pc = "done" =>
        /\ (extn.label = NoExtension) <=> ~HasPeriodAfterFirst(extn.name)
        /\ HasPeriodAfterFirst(extn.name) =>
               extn.label = SuffixFromLastPeriod(extn.name)
        /\ extn.name = <<"a", ".", "a", ".", "B">> => extn.label = <<".", "B">>
        /\ extn.name = <<"B", "a">> => extn.label = NoExtension

\* A name whose only period is its first character was labelled.
C11_Witness ==
    /\ extn.pc = "done"
    /\ extn.name = <<".", "a", "B">>
    /\ extn.label = NoExtension

\* --------------------------------------------------------- format_bytes
\* A byte count is written in base 1024, lowest digit first: TLC's integers
\* cannot hold a uintmax_t.  <<0, 1>> is 1024.
\* Most base-1024 digits of a byte count.
MaxDigits == 6

\* size >= 1024.0, size /= 1024.0
Kilo == 1024
\* unit_index < 4
LastUnitIndex == 4
\* std::setprecision(2)
Precision == 2
\* The significand of a double.
MantissaBits == 53
\* The width of uintmax_t.
UIntMaxBits == 64

units == <<"B", "KB", "MB", "GB", "TB">>

RECURSIVE BitLen(_)
BitLen(n) == IF n = 0 THEN 0 ELSE 1 + BitLen(n \div 2)

DigitBits == BitLen(Kilo - 1)

\* The digits a byte count is made of: the ends of the range, one, and the
\* eighth and the half of 1024, which give the ties of the rounding.
DigitValues == {0, 1, 128, 512, Kilo - 1}

BitsOf(ds) == DigitBits * (Len(ds) - 1) + BitLen(ds[Len(ds)])

\* The values of a uintmax_t, without leading zero digits.
ByteCounts ==
    { ds \in UNION { [1..n -> DigitValues] : n \in 1..MaxDigits } :
        /\ Len(ds) > 1 => ds[Len(ds)] # 0
        /\ BitsOf(ds) <= UIntMaxBits }

\* c added to the digits from place k upwards.
RECURSIVE Carry(_, _, _)
Carry(ds, k, c) ==
    IF c = 0 THEN ds
    ELSE IF k > Len(ds) THEN Append(ds, c)
    ELSE Carry([ds EXCEPT ![k] = (@ + c) % Kilo], k + 1, (ds[k] + c) \div Kilo)

\* static_cast<double>(bytes): the nearest value with MantissaBits
\* significant bits, a tie going to the even one.
ToDouble(ds) ==
    LET drop == BitsOf(ds) - MantissaBits
    IN  IF drop <= 0 THEN ds
        ELSE LET low == ds[2] * Kilo + ds[1]
                 ulp == 2 ^ drop
                 q == low \div ulp
                 rem == low % ulp
                 up == IF rem * 2 > ulp \/ (rem * 2 = ulp /\ q % 2 = 1) THEN 1 ELSE 0
                 rounded == (q + up) * ulp
             IN  Carry(<<rounded % Kilo, (rounded \div Kilo) % Kilo>> \o SubSeq(ds, 3, Len(ds)),
                       3, rounded \div (Kilo * Kilo))

\* The test written size > 1024.0: the loop stops at exactly 1024.
ShouldScaleAbove(size, unit_index) ==
    /\ Len(size.int) > 1
    /\ ~(size.int = <<0, 1>> /\ \A k \in 1..Len(size.frac) : size.frac[k] = 0)
    /\ unit_index < LastUnitIndex

\* size >= 1024.0 && unit_index < 4; the integer part of size has a second
\* digit exactly when size >= 1024.
ShouldScale(size, unit_index) ==
    /\ Len(size.int) > 1
    /\ unit_index < LastUnitIndex

\* size /= 1024.0: exact on a double, the lowest digit of the integer part
\* becomes the first digit of the fraction.
Scaled(size) ==
    [int |-> IF Len(size.int) = 1 THEN <<0>> ELSE Tail(size.int),
     frac |-> <<size.int[1]>> \o size.frac]

\* The integer a digit sequence stands for.
RECURSIVE ValueOf(_)
ValueOf(ds) == IF ds = <<>> THEN 0 ELSE ds[1] + Kilo * ValueOf(Tail(ds))

\* frac times m, on the digits: the integer part in carry, the rest in rest.
RECURSIVE TimesFrom(_, _, _, _)
TimesFrom(frac, m, k, acc) ==
    IF k = 0 THEN acc
    ELSE LET v == frac[k] * m + acc.carry
         IN  TimesFrom(frac, m, k - 1,
                       [carry |-> v \div Kilo, rest |-> <<v % Kilo>> \o acc.rest])

Times(frac, m) == TimesFrom(frac, m, Len(frac), [carry |-> 0, rest |-> <<>>])

\* The decimal digits of n.
RECURSIVE Decimal(_)
Decimal(n) ==
    LET d == <<"0", "1", "2", "3", "4", "5", "6", "7", "8", "9">>[(n % 10) + 1]
    IN  IF n < 10 THEN <<d>> ELSE Append(Decimal(n \div 10), d)

\* n in decimal, padded with zeros to w digits.
RECURSIVE Padded(_, _)
Padded(n, w) == IF w = 0 THEN <<>> ELSE Append(Padded(n \div 10, w - 1), Decimal(n % 10)[1])

\* oss << std::fixed << std::setprecision(2) << size: the decimal with
\* Precision digits after the point nearest to size, a tie going to the
\* even one.
Fixed(size) ==
    LET scale == 10 ^ Precision
        t == Times(size.frac, scale)
        half == Kilo \div 2
        restZero == \A k \in 2..Len(t.rest) : t.rest[k] = 0
        above == t.rest # <<>> /\ (t.rest[1] > half \/ (t.rest[1] = half /\ ~restZero))
        tie == t.rest # <<>> /\ t.rest[1] = half /\ restZero
        hundredths == ValueOf(size.int) * scale + t.carry
        rounded == IF above \/ (tie /\ hundredths % 2 = 1) THEN hundredths + 1 ELSE hundredths
    IN  Decimal(rounded \div scale) \o <<".">> \o Padded(rounded % scale, Precision)

InitFmt ==
    /\ ScanIdle
    /\ argv = <<>> /\ out = <<>> /\ status = -1
    /\ extn = Idle /\ shown = Idle /\ legacy = Idle
    /\ \E b \in ByteCounts : fmt = [pc |-> "call", bytes |-> b]

FmtOthers == <<ScanVars, argv, out, status, extn, shown, legacy>>

\* int unit_index = 0; double size = static_cast<double>(bytes);
FormatBegin ==
    /\ fmt.pc = "call"
    /\ fmt' = [pc |-> "loop", bytes |-> fmt.bytes, unit_index |-> 0,
               size |-> [int |-> ToDouble(fmt.bytes), frac |-> <<>>]]
    /\ UNCHANGED FmtOthers

\* while (...) { size /= 1024.0; unit_index++; }
FormatScale ==
    /\ fmt.pc = "loop"
    /\ ShouldScale(fmt.size, fmt.unit_index)
    /\ fmt' = [fmt EXCEPT !.size = Scaled(@), !.unit_index = @ + 1]
    /\ UNCHANGED FmtOthers

\* oss << ... << size << " " << units[unit_index]; return oss.str();
FormatPrint ==
    /\ fmt.pc = "loop"
    /\ ~ShouldScale(fmt.size, fmt.unit_index)
    /\ fmt' = [pc |-> "done", bytes |-> fmt.bytes, unit_index |-> fmt.unit_index,
               size |-> fmt.size,
               text |-> Fixed(fmt.size) \o <<" ">> \o <<units[fmt.unit_index + 1]>>]
    /\ UNCHANGED FmtOthers

NextFmt ==
    \/ FormatBegin
    \/ FormatScale
    \/ FormatPrint

SpecFmt == InitFmt /\ [][NextFmt]_vars

\* The first unit at which a byte count of that many digits is below 1024,
\* the last unit when there is none.
UnitFor(ds) == IF Len(ds) - 1 < LastUnitIndex THEN Len(ds) - 1 ELSE LastUnitIndex

\* C12: format_bytes stops at the first unit of B, KB, MB, GB, TB at which
\* the scaled value is below 1024, and at TB when there is none; the text
\* is a decimal with exactly two digits after the point, whose integer part
\* is that of the scaled value or one more, then a space and the unit; the
\* scaled value is below 1024 for every byte count below 1024^5; 0 gives
\* "0.00 B", 1023 "1023.00 B", 1024 "1.00 KB" and 1048576 "1.00 MB".
C12_FormatBytes ==
    fmt.pc = "done" =>
        LET n == Len(fmt.text)
            whole == ValueOf(fmt.size.int)
            u == Len(units[fmt.unit_index + 1])
        IN  /\ fmt.unit_index = UnitFor(fmt.bytes)
            /\ Len(fmt.size.frac) = fmt.unit_index
            /\ Len(fmt.bytes) <= LastUnitIndex + 1 => whole < Kilo
            /\ fmt.unit_index < LastUnitIndex => whole < Kilo
            /\ fmt.text[n] = units[fmt.unit_index + 1]
            /\ fmt.text[n - 1] = " "
            /\ fmt.text[n - 4] = "."
            /\ \A k \in (1..(n - 2)) \ {n - 4} : fmt.text[k] \notin {".", " "}
            /\ SubSeq(fmt.text, 1, n - 5) \in {Decimal(whole), Decimal(whole + 1)}
            /\ fmt.bytes = <<0>> => fmt.text = <<"0", ".", "0", "0", " ", "B">>
            /\ fmt.bytes = <<Kilo - 1>> =>
                   fmt.text = <<"1", "0", "2", "3", ".", "0", "0", " ", "B">>
            /\ fmt.bytes = <<0, 1>> => fmt.text = <<"1", ".", "0", "0", " ", "KB">>
            /\ fmt.bytes = <<0, 0, 1>> => fmt.text = <<"1", ".", "0", "0", " ", "MB">>

\* 1024 * 1024 bytes were divided twice and printed as "1.00 MB".
C12_Witness ==
    /\ fmt.pc = "done"
    /\ fmt.bytes = <<0, 0, 1>>
    /\ fmt.unit_index = 2
    /\ fmt.text = <<"1", ".", "0", "0", " ", "MB">>

\* ----------------------------------- display_analysis: the extension list
\* Most extensions of a file_types map.
MaxExts == 11

\* if (count++ >= 10) break;
TopN == 10

\* The keys of a file_types map are numbered in the order of the map; a
\* count is at least 1, being made by ++.  The maps: every one whose counts
\* are 1 or 2, and the ones whose counts are 1..n in a rotated order,
\* upwards or downwards.
TypeMaps ==
    UNION { [1..n -> {1, 2}] \cup
            { [e \in 1..n |-> ((e + r) % n) + 1] : r \in 1..n } \cup
            { [e \in 1..n |-> n - ((e + r) % n)] : r \in 1..n }
            : n \in 0..MaxExts }

\* The comparison turned round: the smallest count first.
ByCountAscending(a, b) == a.num < b.num

\* [](const auto& a, const auto& b) { return a.second > b.second; }
ByCountDescending(a, b) == a.num > b.num

\* One step of the insertion sort std::sort does on a range of at most 16
\* elements: x goes to the front when it compares before the first element,
\* else behind the last element it does not compare before.
Inserted(sorted, x) ==
    IF sorted = <<>> THEN <<x>>
    ELSE IF ByCountDescending(x, sorted[1]) THEN <<x>> \o sorted
    ELSE LET stay == { k \in 1..Len(sorted) : ~ByCountDescending(x, sorted[k]) }
             at == CHOOSE k \in stay : \A j \in stay : j <= k
         IN  SubSeq(sorted, 1, at) \o <<x>> \o SubSeq(sorted, at + 1, Len(sorted))

\* std::sort(sorted_types.begin(), sorted_types.end(), ...) of the first n
\* pairs of the map.
RECURSIVE SortedTypes(_, _)
SortedTypes(types, n) ==
    IF n = 0 THEN <<>>
    ELSE Inserted(SortedTypes(types, n - 1), [ext |-> n, num |-> types[n]])

InitShown ==
    /\ ScanIdle
    /\ argv = <<>> /\ out = <<>> /\ status = -1
    /\ fmt = Idle /\ extn = Idle /\ legacy = Idle
    /\ \E types \in TypeMaps : shown = [pc |-> "call", file_types |-> types]

ShownOthers == <<ScanVars, argv, out, status, fmt, extn, legacy>>

\* if (!result.file_types.empty()) { ... std::sort(...); size_t count = 0;
ShowTypes ==
    /\ shown.pc = "call"
    /\ shown' =
          IF shown.file_types = <<>>
          THEN [pc |-> "done", file_types |-> shown.file_types, printed |-> <<>>]
          ELSE [pc |-> "loop", file_types |-> shown.file_types, printed |-> <<>>,
                sorted_types |-> SortedTypes(shown.file_types, Len(shown.file_types)),
                count |-> 0, at |-> 1]
    /\ UNCHANGED ShownOthers

\* One round of the loop: the end of sorted_types, the break, or a line
\* printed; count++ is made before the test decides.
ShowNext ==
    /\ shown.pc = "loop"
    /\ shown' =
          IF shown.at > Len(shown.sorted_types)
          THEN [pc |-> "done", file_types |-> shown.file_types, printed |-> shown.printed]
          ELSE IF shown.count >= TopN
          THEN [pc |-> "done", file_types |-> shown.file_types, printed |-> shown.printed]
          ELSE [shown EXCEPT !.count = @ + 1, !.at = @ + 1,
                             !.printed = Append(@, shown.sorted_types[shown.at])]
    /\ UNCHANGED ShownOthers

NextShown ==
    \/ ShowTypes
    \/ ShowNext

SpecShown == InitShown /\ [][NextShown]_vars

\* C13: the extension list has exactly min(10, number of extensions)
\* entries, each an extension of the map with its count and none twice, in
\* the order of non-increasing count (strictly decreasing when all counts are
\* distinct), and no extension left out has a count greater than that of a
\* printed one.
C13_TopTypes ==
    shown.pc = "done" =>
        LET types == shown.file_types
            n == Len(types)
            printed == shown.printed
            m == Len(printed)
            exts == { printed[k].ext : k \in 1..m }
        IN  /\ m = IF n < TopN THEN n ELSE TopN
            /\ \A k \in 1..m : printed[k].ext \in 1..n /\ printed[k].num = types[printed[k].ext]
            /\ Cardinality(exts) = m
            /\ \A j, k \in 1..m : j < k => printed[j].num >= printed[k].num
            /\ (\A d, e \in 1..n : d # e => types[d] # types[e]) =>
                   \A j, k \in 1..m : j < k => printed[j].num > printed[k].num
            /\ \A e \in (1..n) \ exts : \A k \in 1..m : types[e] <= printed[k].num

\* A map of more than ten extensions with distinct counts was printed, and
\* the extension of the smallest count was left out.
C13_Witness ==
    /\ shown.pc = "done"
    /\ Len(shown.file_types) > TopN
    /\ \A d, e \in 1..Len(shown.file_types) : d # e => shown.file_types[d] # shown.file_types[e]
    /\ Len(shown.printed) = TopN
    /\ \E e \in 1..Len(shown.file_types) :
          shown.file_types[e] = 1 /\ \A k \in 1..TopN : shown.printed[k].ext # e

\* ----------------------------------------------------- main, the process
\* Most arguments after the program name.
MaxArgs == 4

\* The words of a command line: the ones main compares with, a path and a
\* word main does not know.
Words == {"help", "--help", "-h", "reboot", "shutdown", "rm", "-rf", "r", "x"}

ArgLists == UNION { [1..n -> Words] : n \in 0..MaxArgs }

\* int argc: the program name is counted.
Argc(args) == Len(args) + 1

\* The chain of tests of main with the test for the missing path put first,
\* written without the test that the path is missing.
RouteMissingPathFirst(args) ==
    IF Argc(args) < 2 \/ args[1] \in {"help", "--help", "-h"} THEN "help"
    ELSE IF args[1] \in {"reboot", "shutdown"} THEN "system"
    ELSE IF args[1] = "rm" /\ Argc(args) >= 3 /\ args[2] = "-rf" THEN "missing_path"
    ELSE IF args[1] = "rm" /\ Argc(args) >= 4 /\ args[2] = "-rf" THEN "remove"
    ELSE "dangerous"

\* The chain of tests of main, in its order; args[k] is argv[k].
Route(args) ==
    IF Argc(args) < 2 \/ args[1] \in {"help", "--help", "-h"} THEN "help"
    ELSE IF args[1] \in {"reboot", "shutdown"} THEN "system"
    ELSE IF args[1] = "rm" /\ Argc(args) >= 4 /\ args[2] = "-rf" THEN "remove"
    ELSE IF args[1] = "rm" /\ Argc(args) >= 3 /\ args[2] = "-rf" THEN "missing_path"
    ELSE "dangerous"

\* A line of output is a sequence of pieces of text.
\* format_bytes as a function: the loop run to its end.
RECURSIVE FormatLoop(_, _)
FormatLoop(size, unit_index) ==
    IF ShouldScale(size, unit_index)
    THEN FormatLoop(Scaled(size), unit_index + 1)
    ELSE Fixed(size) \o <<" ", units[unit_index + 1]>>

\* The base-1024 digits of n, lowest first.
RECURSIVE DigitsOf(_)
DigitsOf(n) == IF n < Kilo THEN <<n>> ELSE <<n % Kilo>> \o DigitsOf(n \div Kilo)

format_bytes(n) == FormatLoop([int |-> ToDouble(DigitsOf(n)), frac |-> <<>>], 0)

\* path.string(): the names joined by "/"; the empty path is the empty text.
RECURSIVE PathString(_)
PathString(path) ==
    IF path = <<>> THEN <<>>
    ELSE IF Len(path) = 1 THEN path[1]
    ELSE PathString(SubSeq(path, 1, Len(path) - 1)) \o <<"/">> \o path[Len(path)]

print_header(title) == <<"header", title>>

print_warning(message) == <<"WARNING:">> \o message

print_error(message) == <<"ERROR:">> \o message

print_info(label, value) == <<label, ":">> \o value

\* e.what() of the exception analyze_folder threw.
What(e, path) ==
    CASE e = "NotFound" -> <<"Path does not exist:", path>>
      [] e = "NotADirectory" -> <<"Path is not a directory:", path>>
      [] OTHER -> <<"Error accessing directory:", path>>

\* The labels a file of a tree can have, in the order of std::map.
LabelOrder == << <<".", "t">>, NoExtension >>

\* sorted_types: the pairs of the map in the order of the map, sorted.
TypeLines(types) ==
    LET keys == SelectSeq(LabelOrder, LAMBDA l : l \in DOMAIN types)
        sorted == SortedTypes([k \in 1..Len(keys) |-> types[keys[k]]], Len(keys))
        top == IF Len(sorted) < TopN THEN Len(sorted) ELSE TopN
    IN  [k \in 1..top |-> keys[sorted[k].ext] \o <<":">> \o Decimal(sorted[k].num) \o <<"file(s)">>]

\* The two lines are printed for every result that counted a file.
ShowsLargestOfAnyFile(res) == res.total_files > 0

\* if (result.largest_file_size > 0)
ShowsLargest(res) == res.largest_file_size > 0

\* void display_analysis(const AnalysisResult& result)
display_analysis(res) ==
       << <<"Analysis Results:">>,
          print_info("Total Files", Decimal(res.total_files)),
          print_info("Total Directories", Decimal(res.total_directories)),
          print_info("Total Size", format_bytes(res.total_size)) >>
    \o (IF ShowsLargest(res)
        THEN << print_info("Largest File Size", format_bytes(res.largest_file_size)),
                print_info("Largest File Path", PathString(res.largest_file_path)) >>
        ELSE <<>>)
    \o (IF res.file_types # <<>>
        THEN << <<"File Types Distribution:">> >> \o TypeLines(res.file_types)
        ELSE <<>>)

InitMain ==
    /\ argv \in ArgLists
    /\ root \in IF Route(argv) = "remove" THEN Roots ELSE {[kind |-> "dir", perm |-> "ok"]}
    /\ \E n \in 0..(IF root.kind = "dir" /\ argv = <<"rm", "-rf", "r">> THEN MaxNodes ELSE 0) :
         \E att \in [1..n -> Attrs] :
            \E p \in ParentMaps[n] :
               /\ WellFormed(att, p)
               /\ tree = MakeTree(att, p)
    /\ pc = "main"
    /\ cur = 0
    /\ result = EmptyResult
    /\ err = "none"
    /\ faults = 0
    /\ failed = {}
    /\ changed = {}
    /\ sized = <<>>
    /\ listed = <<>>
    /\ out = <<>>
    /\ status = -1
    /\ fmt = Idle /\ extn = Idle /\ shown = Idle /\ legacy = Idle

\* What the steps of main outside analyze_folder leave alone.
MainFrame == <<root, tree, cur, result, err, faults, failed, changed, sized, listed,
               argv, fmt, extn, shown, legacy>>

\* show_help(); return 0;
ShowHelp ==
    /\ pc = "main"
    /\ Route(argv) = "help"
    /\ out' = out \o << print_header("Command Advisor - Help"), <<"DESCRIPTION:">>,
                        <<"USAGE:">>, <<"SUPPORTED COMMANDS:">>, <<"EXAMPLES:">>,
                        <<"NOTE:">>, <<"It does NOT execute the actual commands.">> >>
    /\ status' = 0
    /\ pc' = "exited"
    /\ UNCHANGED MainFrame

\* handle_system_command(cmd);
HandleSystemCommand ==
    /\ pc = "main"
    /\ Route(argv) = "system"
    /\ out' = out \o << print_header("SYSTEM COMMAND ADVISORY"),
                        <<"Command:", argv[1]>>,
                        print_warning(<<"This will", argv[1], "your entire system!">>),
                        print_info("Impact", <<"All running applications will be terminated">>),
                        print_info("Data Loss Risk", <<"Any unsaved work will be lost">>),
                        print_info("Affected Users", <<"All logged-in users will be disconnected">>),
                        <<"This is a critical system operation. Ensure all work is saved!">> >>
    /\ pc' = "complete"
    /\ UNCHANGED <<MainFrame, status>>

\* handle_remove_command(argv[3]) up to the call of analyze_folder.
HandleRemoveCommand ==
    /\ pc = "main"
    /\ Route(argv) = "remove"
    /\ out' = out \o << print_header("DESTRUCTIVE OPERATION ADVISORY"),
                        <<"Command:", "rm -rf", argv[3]>>,
                        print_warning(<<"Recursive deletion requested!">>),
                        <<"Analyzing target directory...">> >>
    /\ pc' = "exists"
    /\ UNCHANGED <<MainFrame, status>>

\* analyze_folder returned: display_analysis(result); and the text of the
\* danger.
ReportAnalysis ==
    /\ pc = "returned"
    /\ out' = out \o display_analysis(result)
                  \o << <<"DANGER: This operation is IRREVERSIBLE!">>,
                         <<"All">> \o Decimal(result.total_files) \o <<"files and">>
                            \o Decimal(result.total_directories)
                            \o <<"directories will be PERMANENTLY deleted.">>,
                         <<"Total data loss:">> \o format_bytes(result.total_size) >>
    /\ pc' = "complete"
    /\ UNCHANGED <<MainFrame, status>>

\* The failure taken as fatal: the reason is printed and the process ends
\* with status 1.
AnalysisFailedExits ==
    /\ pc = "thrown"
    /\ out' = out \o << print_error(What(err, argv[3])) >>
    /\ status' = 1
    /\ pc' = "exited"
    /\ UNCHANGED MainFrame

\* catch (const std::exception& e) of handle_remove_command
AnalysisFailed ==
    /\ pc = "thrown"
    /\ out' = out \o << print_error(What(err, argv[3])),
                        <<"Unable to analyze directory, but deletion would still proceed if executed!">> >>
    /\ pc' = "complete"
    /\ UNCHANGED <<MainFrame, status>>

\* print_error("Missing path argument ..."); return 1;
MissingPath ==
    /\ pc = "main"
    /\ Route(argv) = "missing_path"
    /\ out' = out \o << print_error(<<"Missing path argument for 'rm -rf' command">>),
                        <<"Usage: advisor rm -rf <path>">> >>
    /\ status' = 1
    /\ pc' = "exited"
    /\ UNCHANGED MainFrame

\* handle_dangerous_command(cmd, args);
HandleDangerousCommand ==
    /\ pc = "main"
    /\ Route(argv) = "dangerous"
    /\ out' = out \o << print_header("POTENTIALLY DANGEROUS COMMAND"),
                        <<"Command:">> \o argv,
                        print_warning(<<"This command may have significant system impact!">>),
                        <<"Please review the command carefully before execution.">> >>
    /\ pc' = "complete"
    /\ UNCHANGED <<MainFrame, status>>

AnalysisComplete == <<"Analysis complete. Review the information above carefully.">>

\* The command carried out before the process ends: the path is removed.
CompleteAfterRunning ==
    /\ pc = "complete"
    /\ out' = Append(out, AnalysisComplete)
    /\ status' = 0
    /\ pc' = "exited"
    /\ root' = [kind |-> "missing", perm |-> "ok"]
    /\ tree' = <<>>
    /\ UNCHANGED <<cur, result, err, faults, failed, changed, sized, listed,
                   argv, fmt, extn, shown, legacy>>

\* The last lines of main: the line of completion; return 0;
Complete ==
    /\ pc = "complete"
    /\ out' = Append(out, AnalysisComplete)
    /\ status' = 0
    /\ pc' = "exited"
    /\ UNCHANGED MainFrame

NextMain ==
    \/ ShowHelp
    \/ HandleSystemCommand
    \/ HandleRemoveCommand
    \/ MissingPath
    \/ HandleDangerousCommand
    \/ CheckExists
    \/ CheckIsDirectory
    \/ Begin
    \/ Classify
    \/ Measure
    \/ Increment
    \/ ReportAnalysis
    \/ AnalysisFailed
    \/ Complete

SpecMain == InitMain /\ [][NextMain]_vars

\* The lines of out that begin with the piece of text t.
LinesOf(t) == { k \in 1..Len(out) : out[k][1] = t }

Reported == pc \in {"complete", "exited"} /\ Route(argv) = "remove" /\ err = "none"

\* C14 as stated: the largest-file size and path lines are printed exactly
\* when the scan found at least one file (total_files > 0).  Violated: a
\* directory holding one empty file gives total_files = 1 and neither line.
C14_LargestLinesAsStated ==
    Reported =>
        /\ (LinesOf("Largest File Size") # {}) <=> (result.total_files > 0)
        /\ (LinesOf("Largest File Path") # {}) <=> (result.total_files > 0)

\* C14 amended: the two lines are printed, once each and the path after the
\* size, exactly when largest_file_size > 0, which is when the size of a
\* non-empty file was read; a scan that found no file prints neither.
C14_LargestLines ==
    Reported =>
        /\ (LinesOf("Largest File Size") # {}) <=> (result.largest_file_size > 0)
        /\ (LinesOf("Largest File Path") # {}) <=> (result.largest_file_size > 0)
        /\ (result.largest_file_size > 0) <=> (\E k \in 1..Len(sized) : FileSize(sized[k]) > 0)
        /\ result.total_files = 0 => LinesOf("Largest File Size") = {}
        /\ \A j \in LinesOf("Largest File Size") :
              /\ LinesOf("Largest File Size") = {j}
              /\ LinesOf("Largest File Path") = {j + 1}
              /\ LinesOf("Total Size") = {j - 1}

\* A scan that counted a file, and only empty ones, was reported without
\* the two lines.
C14_Witness ==
    /\ Reported
    /\ result.total_files > 0
    /\ faults = 0
    /\ result.largest_file_size = 0
    /\ LinesOf("Largest File Size") = {}
    /\ LinesOf("Total Files") # {}

\* The lines handle_remove_command prints before it calls analyze_folder.
RemovalPreamble ==
    << <<"header", "DESTRUCTIVE OPERATION ADVISORY">>,
       <<"Command:", "rm -rf", argv[3]>>,
       <<"WARNING:", "Recursive deletion requested!">>,
       <<"Analyzing target directory...">> >>

StillProceeds ==
    <<"Unable to analyze directory, but deletion would still proceed if executed!">>

\* C15: when analyze_folder fails for rm -rf <path>, the header and the
\* recursive-deletion warning are already printed; the process goes on:
\* it prints the reason of the failure, then that deletion would still
\* proceed if executed, then the line of completion, and exits with 0.
C15_FailedAnalysisStillAdvises ==
    /\ pc = "thrown" =>
          /\ out = RemovalPreamble
          /\ status = -1
          /\ ENABLED AnalysisFailed
    /\ (pc = "complete" /\ err # "none") =>
          /\ Len(out) = Len(RemovalPreamble) + 2
          /\ SubSeq(out, 1, Len(RemovalPreamble)) = RemovalPreamble
          /\ out[Len(out) - 1][1] = "ERROR:"
          /\ out[Len(out) - 1][3] = argv[3]
          /\ out[Len(out)] = StillProceeds
          /\ status = -1
          /\ ENABLED Complete
    /\ (pc = "exited" /\ err # "none") =>
          /\ Len(out) = Len(RemovalPreamble) + 3
          /\ SubSeq(out, 1, Len(RemovalPreamble)) = RemovalPreamble
          /\ out[Len(out) - 2][1] = "ERROR:"
          /\ out[Len(out) - 1] = StillProceeds
          /\ out[Len(out)] = AnalysisComplete
          /\ status = 0

\* The analysis of a path that does not exist failed and the process ended
\* with status 0 after the line of completion.
C15_Witness ==
    /\ pc = "exited"
    /\ err = "NotFound"
    /\ status = 0
    /\ out[Len(out) - 1] = StillProceeds
    /\ out[Len(out)] = AnalysisComplete

\* C16: for every argument vector no step of the process changes the
\* filesystem (the path and the tree below it) or runs the command: the
\* filesystem after the run is the one before it, on the help, error and
\* failed-analysis paths as well.
C16_ReadOnly == [][root' = root /\ tree' = tree]_vars

\* A run that analysed a directory which is not empty has ended, and so has
\* one whose analysis failed.
C16_Witness ==
    /\ pc = "exited"
    /\ Route(argv) = "remove"
    /\ tree # <<>>
    /\ result.total_files > 0
    /\ root.kind = "dir"

HelpWords == {"help", "--help", "-h"}

\* The lines of out that are headers, and the ones that are warnings.
Headers == { out[k] : k \in LinesOf("header") }

\* C18: main routes every argument vector to exactly one outcome: help
\* without argument or with help, --help or -h first; the system advisory
\* for reboot or shutdown first; the deletion analysis of the argument that
\* follows -rf for rm -rf and a path; an error with status 1 and no advisory
\* for rm -rf without path; the generic warning for every other vector.
\* Every outcome but the missing path prints a warning or the help text and
\* exits with status 0.
C18_Routing ==
    pc = "exited" =>
        LET n == Len(argv)
            help == n = 0 \/ argv[1] \in HelpWords
            system == ~help /\ argv[1] \in {"reboot", "shutdown"}
            rmrf == n >= 2 /\ argv[1] = "rm" /\ argv[2] = "-rf"
            remove == rmrf /\ n >= 3
            missing == rmrf /\ n = 2
            other == ~help /\ ~system /\ ~rmrf
        IN  /\ help => Headers = {<<"header", "Command Advisor - Help">>}
            /\ system =>
                  /\ Headers = {<<"header", "SYSTEM COMMAND ADVISORY">>}
                  /\ out[2] = <<"Command:", argv[1]>>
            /\ remove =>
                  /\ Headers = {<<"header", "DESTRUCTIVE OPERATION ADVISORY">>}
                  /\ out[2] = <<"Command:", "rm -rf", argv[3]>>
                  /\ LinesOf("Analyzing target directory...") = {4}
                  /\ LinesOf("Analysis Results:") # {} \/ out[5][3] = argv[3]
            /\ missing =>
                  /\ Headers = {}
                  /\ LinesOf("WARNING:") = {}
                  /\ out[1][1] = "ERROR:"
                  /\ status = 1
            /\ other =>
                  /\ Headers = {<<"header", "POTENTIALLY DANGEROUS COMMAND">>}
                  /\ out[2] = <<"Command:">> \o argv
            /\ ~missing =>
                  /\ status = 0
                  /\ Cardinality(LinesOf("header")) = 1
                  /\ help \/ LinesOf("WARNING:") # {}
            /\ ~remove => LinesOf("Analyzing target directory...") = {}

\* rm -rf with a path ended in the deletion analysis of that path, with a
\* further argument left aside.
C18_Witness ==
    /\ pc = "exited"
    /\ argv = <<"rm", "-rf", "r", "x">>
    /\ status = 0
    /\ out[2] = <<"Command:", "rm -rf", "r">>
    /\ LinesOf("Analysis Results:") # {}

\* --------------------------------------------- the accumulation of sizes
\* The exact sum of the sizes the scan added to total_size.
ExactSumRead == SumOver(SizesRead, DOMAIN SizesRead)

\* C17: total_size is the exact sum of the sizes of the files added during
\* the scan whenever that sum is at most half the range of uintmax_t (2^63
\* of 2^64), and the accumulation is protected against overflow: a sum
\* beyond the range never comes out as a total smaller than one of the sizes
\* that went into it.
\* Violated: three files of the largest size wrap total_size round.
C17_SizeAccumulation ==
    /\ ExactSumRead <= 2 ^ (SizeBits - 1) => result.total_size = ExactSumRead
    /\ \A k \in DOMAIN SizesRead : result.total_size >= SizesRead[k]

\* ------------------------------------------------ the end of the scan
\* The scans of the trees whose files are all one byte long: the size of a
\* file decides nothing about the way the iterator takes.
InitWalk ==
    /\ Init
    /\ \A i \in DOMAIN tree : tree[i].kind = "file" => tree[i].size = 1

SpecWalk == InitWalk /\ [][Next]_vars

Done == pc \in {"returned", "thrown"}

\* The steps a scan has at most left: three for every entry not yet
\* reached, and the steps of the entry it stands on.
Rank ==
    CASE pc = "exists" -> 3 * N + 3
      [] pc = "is_directory" -> 3 * N + 2
      [] pc = "begin" -> 3 * N + 1
      [] pc = "body" -> 3 * (N - cur) + 3
      [] pc = "size" -> 3 * (N - cur) + 2
      [] pc = "increment" -> 3 * (N - cur) + 1
      [] OTHER -> 0

\* C19: a scan of a finite tree terminates and returns a result or a
\* failure, also with symbolic links to an ancestor or in a loop: a scan
\* that has not ended can take a step, every step lowers the number of
\* steps left, which is never negative, and symbolic links to directories
\* are not descended into, so that no directory is listed twice and only
\* directories themselves are listed.
C19_ScanTerminates ==
    /\ [](Done \/ ENABLED Next)
    /\ [](Rank >= 0)
    /\ [][Rank' < Rank]_vars
    /\ [](\A j, k \in 1..Len(listed) : j < k => listed[j] # listed[k])
    /\ [](\A k \in 1..Len(listed) : listed[k] = 0 \/ tree[listed[k]].kind = "dir")

\* A scan returned from a tree that holds a symbolic link to the root inside
\* a directory and a symbolic link in a loop, having listed the root and
\* that directory once each.
C19_Witness ==
    /\ pc = "returned"
    /\ \E i, j \in 1..N :
          /\ tree[i].kind = "symlink" /\ tree[i].target = "root" /\ tree[i].parent # 0
          /\ tree[j].kind = "symlink" /\ tree[j].target = "self"
          /\ listed = <<0, tree[i].parent>>

\* ------------------------------------------ the first version of advisor
\* analyze_folder of src/unnamed/part_000: no test of the path and no catch;
\* an exception ends the process.
InitLegacy ==
    /\ root \in Roots
    /\ \E n \in 0..(IF root.kind = "dir" THEN MaxNodes ELSE 0) :
         \E att \in [1..n -> Attrs] :
            \E p \in ParentMaps[n] :
               /\ WellFormed(att, p)
               /\ tree = MakeTree(att, p)
    /\ pc = "idle"
    /\ cur = 0
    /\ result = EmptyResult
    /\ err = "none"
    /\ faults = 0
    /\ failed = {}
    /\ changed = {}
    /\ sized = <<>>
    /\ listed = <<>>
    /\ argv = <<>> /\ out = <<>> /\ status = -1
    /\ fmt = Idle /\ extn = Idle /\ shown = Idle
    /\ legacy = [pc |-> "begin", at |-> 0, file_count |-> 0, largest_file |-> 0]

LegacyOthers == <<root, tree, pc, cur, result, err, failed, changed, sized, listed,
                  argv, out, status, fmt, extn, shown>>

\* The iterator of the first version reaches entry nxt, or the end.
LegacyMoveTo(nxt) ==
    legacy' = [legacy EXCEPT !.at = nxt, !.pc = IF nxt = 0 THEN "report" ELSE "body"]

Terminated == [legacy EXCEPT !.pc = "terminated"]

\* recursive_directory_iterator(path, skip_permission_denied): a path that
\* is missing or not a directory throws, and nothing catches.
LegacyBegin ==
    /\ legacy.pc = "begin"
    /\ \/ /\ root.kind # "dir"
          /\ legacy' = Terminated
          /\ UNCHANGED faults
       \/ /\ root.kind = "dir"
          /\ root.perm = "denied"
          /\ LegacyMoveTo(0)
          /\ UNCHANGED faults
       \/ /\ root.kind = "dir"
          /\ root.perm = "ok"
          /\ LegacyMoveTo(NextEntry(0, TRUE))
          /\ UNCHANGED faults
       \/ /\ root.kind = "dir"
          /\ faults < MaxFaults
          /\ faults' = faults + 1
          /\ legacy' = Terminated
    /\ UNCHANGED LegacyOthers

\* if(entry.is_regular_file()){ ++file_count; auto size = entry.file_size();
\* if(size > largest_file) largest_file = size; }
LegacyVisit ==
    /\ legacy.pc = "body"
    /\ \/ /\ Status(legacy.at).type = "file"
          /\ legacy' = [legacy EXCEPT
                           !.pc = "increment",
                           !.file_count = @ + 1,
                           !.largest_file = IF FileSize(legacy.at) > @
                                            THEN FileSize(legacy.at) ELSE @]
          /\ UNCHANGED faults
       \/ /\ Status(legacy.at).type \in {"dir", "other", "not_found"}
          /\ legacy' = [legacy EXCEPT !.pc = "increment"]
          /\ UNCHANGED faults
       \/ /\ Status(legacy.at).type = "error"
          /\ legacy' = Terminated
          /\ UNCHANGED faults
       \/ /\ faults < MaxFaults
          /\ faults' = faults + 1
          /\ legacy' = Terminated
    /\ UNCHANGED LegacyOthers

\* ++it of the first version.
LegacyIncrement ==
    /\ legacy.pc = "increment"
    /\ \/ /\ ~ShouldRecurse(legacy.at)
          /\ LegacyMoveTo(NextEntry(legacy.at, FALSE))
          /\ UNCHANGED faults
       \/ /\ ShouldRecurse(legacy.at)
          /\ tree[legacy.at].perm = "ok"
          /\ LegacyMoveTo(NextEntry(legacy.at, TRUE))
          /\ UNCHANGED faults
       \/ /\ ShouldRecurse(legacy.at)
          /\ tree[legacy.at].perm = "denied"
          /\ LegacyMoveTo(NextEntry(legacy.at, FALSE))
          /\ UNCHANGED faults
       \/ /\ ShouldRecurse(legacy.at)
          /\ faults < MaxFaults
          /\ faults' = faults + 1
          /\ legacy' = Terminated
    /\ UNCHANGED LegacyOthers

\* std::cout << "This action would delete " << file_count
\*           << " files and free up " << largest_file
\*           << " bytes of space. The largest file is " << largest_file ...
LegacyReport ==
    /\ legacy.pc = "report"
    /\ legacy' = [pc |-> "reported", at |-> legacy.at,
                  file_count |-> legacy.file_count, largest_file |-> legacy.largest_file,
                  report |-> [delete |-> legacy.file_count,
                              free_up |-> legacy.largest_file,
                              largest |-> legacy.largest_file]]
    /\ UNCHANGED <<LegacyOthers, faults>>

NextLegacy ==
    \/ LegacyBegin
    \/ LegacyVisit
    \/ LegacyIncrement
    \/ LegacyReport

SpecLegacy == InitLegacy /\ [][NextLegacy]_vars

\* The largest of the sizes of the regular files of the tree, 0 without one.
LargestOfTree ==
    IF RegularFiles = {} THEN 0
    ELSE LET i == CHOOSE f \in RegularFiles : \A g \in RegularFiles : tree[g].size <= tree[f].size
         IN  tree[i].size

\* A report made without any failure on a tree of regular files and
\* directories that may all be listed.
LegacyCleanRun ==
    /\ legacy.pc = "reported"
    /\ faults = 0
    /\ root.perm = "ok"
    /\ \A i \in 1..N : tree[i].kind \in {"file", "dir"} /\ tree[i].perm = "ok"

\* C20: the report of the first version for rm -rf <folder>, here on a tree
\* of regular files and readable directories scanned without failure, gives
\* the number of regular files of the tree as the files to delete, the sum of
\* their sizes as the bytes to free and the largest of their sizes as the
\* largest file.
\* Violated: for two files of one byte the report frees 1 byte, not 2: the
\* figure printed is largest_file.
C20_LegacyReport ==
    LegacyCleanRun =>
        /\ legacy.report.delete = Cardinality(RegularFiles)
        /\ legacy.report.free_up = SumOfSizes(RegularFiles)
        /\ legacy.report.largest = LargestOfTree

====
